---- MODULE Spec2Model ----
(***************************************************************************)
(* Model of the heating optimisation (learning) script,                    *)
(* src/iobroker/heating_controller/iobroker_heating_weather_data_analyse.js *)
(* lines 281-512: createStates, main and the start-up block.               *)
(*                                                                         *)
(* Numbers.  Temperatures (spread samples, current spread) are integers in *)
(* tenths of a degree.  The two output datapoints hold values that the     *)
(* script rounds with toFixed(4); they are integers in units of 1e-4.      *)
(* Intermediate values of the computation are exact rationals: the mean,   *)
(* the variance and the stability are records [num, den]; the factor       *)
(* before rounding is a mixed number [int, num, den] = int + num/den in    *)
(* units of 1e-4 with 0 <= num < den.  IEEE-754 rounding of the            *)
(* intermediate values is not represented.                                 *)
(*                                                                         *)
(* The room control script, src/unnamed/part_001 lines 1-363 (main,         *)
(* rateLimitedMain and the triggers), reads the factor the learning script *)
(* writes.  Its temperatures are integers in units of 1e-7 degree, in      *)
(* which every product of its inputs (tenths of a degree, percent, factor  *)
(* in 1e-4) is exact.  Times are in milliseconds and relative to the       *)
(* current Date.now(); differences are cut off at COOLDOWN_MS, beyond      *)
(* which the script does not distinguish them.                             *)
(*                                                                         *)
(* The heating period script, src/unnamed/part_001 lines 367-509 (the      *)
(* sensor handler and the end-of-day schedule), keeps the sum and the      *)
(* number of the day's outdoor temperatures in two datapoints.  Its        *)
(* temperatures are integers in tenths of a degree, the daily average is   *)
(* an exact rational and the stored average is in hundredths.              *)
(*                                                                         *)
(* Steps.  Every await of the source is a step boundary: an action resumes *)
(* a function after one await and runs its synchronous code up to the next *)
(* await or return.  A position "Lnnn" is the line of the pending await,   *)
(* "Rnnn" the line at which main() returned.                               *)
(***************************************************************************)
EXTENDS Integers, Sequences, FiniteSets, TLC

\* ---------------------------------------------------------------- bounds
\* Number of main() invocations started in one behaviour.
MaxCycles == 2
\* Longest query result explored in EstSpec (one more than the window).
MaxHistoryEst == 7

\* ------------------------------------------------------- program constants
\* CONFIG.minSpreizungForLearning = 2.0 (tenths of a degree)
minSpreizungForLearning == 20
\* CONFIG.stabilityCalculationHours = 3
stabilityCalculationHours == 3
\* CONFIG.simulationValues.aktuelleSpreizung = 5.5 (tenths of a degree)
simAktuelleSpreizung == 55
\* CONFIG.simulationValues.heizperiode = true
simHeizperiode == TRUE
\* Neutral factor 1.0 used when the datapoint is absent, and created by
\* createStates (units of 1e-4).
NeutralFactor == 10000
\* Initial value 0.5 of the stability datapoint (units of 1e-4).
InitialStability == 5000
\* Hard limits 0.3 and 1.7 of the factor (units of 1e-4).
LowerLimit == 3000
UpperLimit == 17000
\* historyData.length < 3
MinHistory == 3

\* ------------------------------------------------------------ value domains
\* JavaScript null in item.val, and a value whose typeof is not 'number';
\* both are integers outside every temperature range.
Null == -30000
NotANumber == -30001

\* A datapoint of the state store: absent, or a value with its ack flag.
Absent == [exists |-> FALSE]
StateOf(v, a) == [exists |-> TRUE, val |-> v, ack |-> a]

\* Values item.val takes in a query result.
Items == {Null, -10, 0, 180}
ItemsEst == {50, 100, 180}
\* What getStateAsync finds in the heating-period system variable and in the
\* spread sensor datapoint, both owned by the host.
HeizperiodeStates == {Absent, StateOf(TRUE, TRUE), StateOf(FALSE, TRUE)}
SpreizungStates == {Absent} \cup {StateOf(v, TRUE) : v \in {NotANumber, 19, 20}}
\* Values an operator of the installation writes to the factor datapoint.
Overrides == {0, 20000}
\* Values of the factor datapoint found at script start.
StoredFactors == {NeutralFactor, 12000}

\* The lists of at most n elements of S.
SeqsUpTo(S, n) == UNION {[1..k -> S] : k \in 0..n}

\* Replies of sendToAsync(influxdbInstance, 'getHistory', ...):
\* the promise rejects, or resolves to an object with .error, without
\* .result, or with .result a list of items.
FailureReplies == {[kind |-> "reject", result |-> <<>>],
                   [kind |-> "error", result |-> <<>>],
                   [kind |-> "noresult", result |-> <<>>]}
DataReplies(S, n) == {[kind |-> "data", result |-> h] : h \in SeqsUpTo(S, n)}


\* ---------------------------------------------------------------- state
VARIABLES
    simulationAktiv,        \* CONFIG.simulationAktiv
    autoCreateOutputStates, \* CONFIG.autoCreateOutputStates
    reglerleistung,         \* datapoint CONFIG.output.reglerleistungId
    systemStabilitaet,      \* datapoint CONFIG.output.systemStabilitaetId
    boot,                   \* position of the start-up block
    scheduled,              \* schedule('*/30 * * * *', main) is registered
    timerPending,           \* setTimeout(main, 10000) has not fired yet
    pc,                     \* position of each invocation of main()
    loc,                    \* local variables of each invocation of main()
    cycles                  \* invocations of main() started so far

\* State of the room control script (src/unnamed/part_001).
VARIABLES
    lastRunTimestamp,       \* let lastRunTimestamp (282), relative to Date.now()
    rateLimited,            \* where the latest call of rateLimitedMain went
    startTimerPending,      \* setTimeout(..., 1500) of 363 has not fired yet
    roomPc,                 \* position of each invocation of the room's main()
    roomLoc,                \* local variables of each invocation
    setPointTemperature,    \* thermostat datapoint SET_POINT_TEMPERATURE
    controlMode,            \* thermostat datapoint CONTROL_MODE
    sinceLastStart,         \* time since main() was last entered, cut off
    inputChange             \* a change of an input: whether a trigger for it was
                            \* dropped and whether a later run has read the inputs

\* State of the heating period script (src/unnamed/part_001, 367-509).
VARIABLES
    AVG_TEMP_DP,            \* datapoint Tagesmittelwert (hundredths)
    SUM_CACHE_DP,           \* datapoint ZwischenspeicherSumme (tenths)
    COUNTER_DP,             \* datapoint MessungenZaehler
    HEATING_PERIOD_DP,      \* datapoint HeizperiodeAktiv
    LAST_RESET_DP,          \* datapoint LetzterReset
    arrived,                \* sensor updates delivered so far
    sensorPc,               \* position of the handler of each sensor update
    sensorLoc,              \* local variables of each handler
    dayPc,                  \* position of the end-of-day callback
    dayLoc,                 \* local variables of the end-of-day callback
    numericUpdates,         \* updates with a number since the last reset
    numericTotal            \* total of their values

periodScript == <<AVG_TEMP_DP, SUM_CACHE_DP, COUNTER_DP, HEATING_PERIOD_DP,
                  LAST_RESET_DP, arrived, sensorPc, sensorLoc, dayPc, dayLoc,
                  numericUpdates, numericTotal>>

roomScript == <<lastRunTimestamp, rateLimited, startTimerPending, roomPc, roomLoc,
                setPointTemperature, controlMode, sinceLastStart, inputChange>>

learningScript == <<simulationAktiv, autoCreateOutputStates,
                    reglerleistung, systemStabilitaet, boot, scheduled, timerPending,
                    pc, loc, cycles>>

vars == <<simulationAktiv, autoCreateOutputStates,
          reglerleistung, systemStabilitaet, boot, scheduled, timerPending,
          pc, loc, cycles,
          lastRunTimestamp, rateLimited, startTimerPending, roomPc, roomLoc,
          setPointTemperature, controlMode, sinceLastStart, inputChange,
          AVG_TEMP_DP, SUM_CACHE_DP, COUNTER_DP, HEATING_PERIOD_DP,
          LAST_RESET_DP, arrived, sensorPc, sensorLoc, dayPc, dayLoc,
          numericUpdates, numericTotal>>

config == <<simulationAktiv, autoCreateOutputStates>>
outputs == <<reglerleistung, systemStabilitaet>>
startup == <<boot, scheduled, timerPending>>

\* The two callers of main(): the setTimeout callback and the cron schedule.
Runs == {"timer", "cron"}

\* ------------------------------------------------------ exact arithmetic
Rat(n, d) == [num |-> n, den |-> d]
RatLt(a, b) == a.num * b.den < b.num * a.den
RatLe(a, b) == a.num * b.den <= b.num * a.den
RatEq(a, b) == a.num * b.den = b.num * a.den

\* int + num/den with the fraction brought into [0, 1).
Mixed(i, n, d) == [int |-> i + (n \div d), num |-> n % d, den |-> d]
MixedLtInt(x, k) == x.int < k
MixedGtInt(x, k) == x.int > k \/ (x.int = k /\ x.num > 0)

\* Number.prototype.toFixed(4) followed by parseFloat: the nearest multiple
\* of 1e-4, a half rounded up.
ToFixed4(x) == x.int + (IF 2 * x.num >= x.den THEN 1 ELSE 0)
\* The same for a rational in units of 1: the result is in units of 1e-4.
RatToFixed4(a) == (2 * 10000 * a.num + a.den) \div (2 * a.den)

\* ------------------------------------------------- estimator (main, 437-488)
RECURSIVE SumSeq(_)
SumSeq(w) == IF w = <<>> THEN 0 ELSE Head(w) + SumSeq(Tail(w))

\* Variant: filter(v => v !== null).
SanitizeNullOnly(result) == SelectSeq(result, LAMBDA v : v # Null)
\* result.result.map(item => item.val).filter(v => v !== null && v >= 0)
Sanitize(result) == SelectSeq(result, LAMBDA v : v # Null /\ v >= 0)

\* historyData.slice(-(CONFIG.stabilityCalculationHours * 2))
WindowSize == stabilityCalculationHours * 2
StabilityWindow(historyData) ==
    IF Len(historyData) <= WindowSize THEN historyData
    ELSE SubSeq(historyData, Len(historyData) - WindowSize + 1, Len(historyData))

\* Variant: the sum divided by the nominal window size instead of the length.
MeanOfFullWindow(w) == Rat(SumSeq(w), WindowSize)
\* sum / stabilityWindow.length, in tenths of a degree
MeanOf(w) == Rat(SumSeq(w), Len(w))

\* map(x => Math.pow(x - mean, 2)): (x - mean)^2 with mean = num/den is
\* (den*x - num)^2 / den^2; the numerators, in tenths squared.
SquaredDeviations(w, mean) ==
    [i \in 1..Len(w) |-> (mean.den * w[i] - mean.num) * (mean.den * w[i] - mean.num)]
\* ... .reduce((a, b) => a + b, 0) / stabilityWindow.length, in degrees
\* squared (a hundredth of the value in tenths squared).
VarianceOf(w, mean) ==
    Rat(SumSeq(SquaredDeviations(w, mean)), 100 * mean.den * mean.den * Len(w))

\* Variant: 1.0 - variance.
StabilityOfLinear(variance) == Rat(variance.den - variance.num, variance.den)
\* 1.0 / (1.0 + variance)
StabilityOf(variance) == Rat(variance.den, variance.den + variance.num)

\* newReglerleistung += ((7.0 - avg3h) / 7.0) * (basisLernrate * 2.0):
\* 0.02 * 2.0 is 400 units of 1e-4, and with avg3h = num/den in tenths
\* (7.0 - avg3h) / 7.0 = (70*den - num) / (70*den).
Case1Adjust(prev, avg3h) ==
    Mixed(prev, 400 * (70 * avg3h.den - avg3h.num), 70 * avg3h.den)
\* Variant: newReglerleistung -= 0.05.
Case2AdjustSubtract(prev) == Mixed(prev - 500, 0, 1)
\* newReglerleistung *= 0.95
Case2Adjust(prev) == Mixed(0, 95 * prev, 100)
\* Variant: newReglerleistung * 0.99 + 0.1.
Case3AdjustOvershoot(prev) == Mixed(1000, 99 * prev, 100)
\* newReglerleistung = newReglerleistung * 0.99 + 0.01
Case3Adjust(prev) == Mixed(100, 99 * prev, 100)
\* Variant: = instead of +=.
DefaultAdjustAssign(prev, stability) ==
    Mixed(0, (NeutralFactor - prev) * stability.num, 50 * stability.den)
\* Variant: the rate is scaled by the stability datapoint of the state store
\* instead of the stability just computed.
DefaultAdjustStored(prev, stability) ==
    Mixed(prev,
          (NeutralFactor - prev)
              * (IF systemStabilitaet.exists THEN systemStabilitaet.val ELSE InitialStability),
          50 * 10000)
\* newReglerleistung += (1.0 - newReglerleistung) * (basisLernrate * stability):
\* 0.02 * stability = stability.num / (50 * stability.den).
DefaultAdjust(prev, stability) ==
    Mixed(prev, (NeutralFactor - prev) * stability.num, 50 * stability.den)

\* Variant: || instead of && in the condition of case 1.
LearnOr(prev, avg3h, stability) ==
    IF RatLt(avg3h, Rat(70, 1)) \/ RatLt(stability, Rat(4, 10))
    THEN [newReglerleistung |-> Case1Adjust(prev, avg3h),
          adjustmentCase |-> "Case 1: System sluggish/unstable"]
    ELSE IF RatLt(Rat(160, 1), avg3h) /\ RatLt(Rat(6, 10), stability)
    THEN [newReglerleistung |-> Case2Adjust(prev),
          adjustmentCase |-> "Case 2: System overreacting"]
    ELSE IF /\ RatLe(Rat(80, 1), avg3h)
            /\ RatLe(avg3h, Rat(120, 1))
            /\ RatLt(Rat(7, 10), stability)
    THEN [newReglerleistung |-> Case3Adjust(prev),
          adjustmentCase |-> "Case 3: System in optimal range"]
    ELSE [newReglerleistung |-> DefaultAdjust(prev, stability),
          adjustmentCase |-> "Default-Convergence"]
\* The if / else-if chain of 467-484: the adjusted factor and the case label.
Learn(prev, avg3h, stability) ==
    IF RatLt(avg3h, Rat(70, 1)) /\ RatLt(stability, Rat(4, 10))
    THEN [newReglerleistung |-> Case1Adjust(prev, avg3h),
          adjustmentCase |-> "Case 1: System sluggish/unstable"]
    ELSE IF RatLt(Rat(160, 1), avg3h) /\ RatLt(Rat(6, 10), stability)
    THEN [newReglerleistung |-> Case2Adjust(prev),
          adjustmentCase |-> "Case 2: System overreacting"]
    ELSE IF /\ RatLe(Rat(80, 1), avg3h)
            /\ RatLe(avg3h, Rat(120, 1))
            /\ RatLt(Rat(7, 10), stability)
    THEN [newReglerleistung |-> Case3Adjust(prev),
          adjustmentCase |-> "Case 3: System in optimal range"]
    ELSE [newReglerleistung |-> DefaultAdjust(prev, stability),
          adjustmentCase |-> "Default-Convergence"]

\* Variant: the upper limit is not applied.
ClampLowerOnly(x) == IF MixedLtInt(x, LowerLimit) THEN Mixed(LowerLimit, 0, 1) ELSE x
\* if (x < 0.3) x = 0.3; if (x > 1.7) x = 1.7;
Clamp(x) ==
    LET low == IF MixedLtInt(x, LowerLimit) THEN Mixed(LowerLimit, 0, 1) ELSE x
    IN  IF MixedGtInt(low, UpperLimit) THEN Mixed(UpperLimit, 0, 1) ELSE low

\* --------------------------------------------------------- locals of main
\* Before the declarations of main() are reached.
NoValue == [set |-> FALSE]
Value(v) == [set |-> TRUE, val |-> v]
InitialLocals ==
    [heizperiodeAktiv |-> NoValue, aktuelleSpreizung |-> NoValue,
     stabilityWindow |-> NoValue, mean |-> NoValue, variance |-> NoValue,
     stability |-> NoValue,
     currentReglerleistung |-> NoValue, newReglerleistung |-> NoValue,
     adjustmentCase |-> NoValue]

Returned == {"R408", "R416", "R444", "R450", "R501"}
\* "rejected": an exception left main(), whose promise is rejected.
NotRunning == {"idle", "rejected"} \cup Returned
InProgress(r) == pc[r] \notin NotRunning

\* ------------------------------------- room control: CONFIG (part_001, 50-106)
\* Invocations of the room's main() that can be in progress at once.
MaxRoomRuns == 2
RoomRuns == 1..MaxRoomRuns

\* One tenth of a degree, one hundredth and half a degree, in units of 1e-7.
Tenth == 1000000
Hundredth == 100000
HalfDegree == 5000000

\* A. basic settings (temperatures in tenths of a degree)
nachtschaltungNutzen == TRUE
tuerSensorNutzen == TRUE
hysterese == 5
tempFensterOffen == 120
tempHeizperiodeAus == 45
temperaturOffset == 0
minSollTemp == 160
maxSollTemp == 240
\* D. basic control: 12.0 degrees, 0.25 (in hundredths), 50 %, 0.02 (in
\* hundredths of a degree per percent)
aussenTempNeutral == 120
heizkurvenfaktor == 25
luftfeuchteOptimal == 50
feuchteKorrekturfaktor == 2
\* E. modules: 2.5, 0.5, 3.0, 0.5 degrees (tenths) and 0.1 (in tenths)
schimmelSchutzAktiv == TRUE
sicherheitsabstandTaupunkt == 25
offsetSchimmelSchutz == 5
behaglichkeitAktiv == TRUE
maxTempDifferenzWand == 30
offsetBehaglichkeit == 5
heizlastAktiv == TRUE
heizlastKorrekturfaktor == 1
\* F. trigger thresholds: 1.0 and 0.3 degrees (tenths), 5.0 %
aussenTempTriggerThreshold == 10
raumTempTriggerThreshold == 3
luftfeuchteTriggerThreshold == 5
\* const COOLDOWN_MS = 2000 (283)
COOLDOWN_MS == 2000
\* Fallbacks of 138, 139 and 249 (tenths of a degree); the fallback of 140
\* is NeutralFactor.
sollTempAnwesendFallback == 210
sollTempAbwesendFallback == 160
aktuellEingestellteTempFallback == 45
\* Plausibility limits of 133, 134, 195 and 220: -30.0 and 60.0 degrees
\* (tenths), 0 and 100 %, 90.0 degrees (tenths).
aussenTempMin == -300
aussenTempMax == 600
feuchteMin == 0
feuchteMax == 100
wandTempMax == 900

\* ------------------------------------------------ room control: locals of main
InitialRoomLocals ==
    [heizPeriode |-> NoValue, anwesenheit |-> NoValue, tuerSensor |-> NoValue,
     fensterKontakte |-> NoValue,
     fensterIstOffen |-> NoValue, tuerIstGeschlossen |-> NoValue,
     sollTempAnwesend |-> NoValue, sollTempAbwesend |-> NoValue,
     basisSollTemp |-> NoValue, istSonderfall |-> NoValue,
     neueSollTemp |-> NoValue,
     aktuellEingestellteTemp |-> NoValue, sollwertGeaendert |-> NoValue,
     startedAfterChange |-> FALSE]

\* rateLimitedMain has not been called yet.
NotCalled == "idle"

\* The room control script is not loaded: nothing of it runs and its
\* thermostat datapoints are not there.
RoomNotLoaded ==
    /\ lastRunTimestamp = -COOLDOWN_MS
    /\ rateLimited = NotCalled
    /\ startTimerPending = FALSE
    /\ roomPc = [r \in RoomRuns |-> "idle"]
    /\ roomLoc = [r \in RoomRuns |-> InitialRoomLocals]
    /\ setPointTemperature = Absent
    /\ controlMode = Absent
    /\ sinceLastStart = COOLDOWN_MS
    /\ inputChange = "none"

\* ------------------------ heating period script: parameters (part_001, 386-404)
\* Number of sensor updates delivered in one behaviour.
MaxUpdates == 2
Updates == 1..MaxUpdates

\* const HEATING_LIMIT_TEMP = 18.0 (tenths of a degree)
HEATING_LIMIT_TEMP == 180

\* A value of obj.state.val with its typeof; number holds the temperature
\* in tenths, for a string the number it would convert to.
NumberValue(v) == [type |-> "number", number |-> v]
\* null (typeof 'object') and the string "21.5".
NonNumbers == {[type |-> "object", number |-> 0], [type |-> "string", number |-> 215]}
Temperatures == {-5, 180, 190}
SensorUpdates == {NumberValue(v) : v \in Temperatures} \cup NonNumbers

\* new Date() at line 484: getMonth() is 0-based.
Dates == [getDate : {9}, getMonth : 0..11, getFullYear : {2026}]
\* def: "never" of LAST_RESET_DP (417): a date string of no parts.
Never == <<>>

InitialSensorLocals ==
    [currentTemp |-> NoValue, oldSum |-> NoValue,
     newSum |-> NoValue, newCounter |-> NoValue]
InitialDayLocals ==
    [sum |-> NoValue, counter |-> NoValue, dailyAverage |-> NoValue, now |-> NoValue]

\* The heating period script is not loaded: none of its handlers runs and
\* its datapoints are not there.
PeriodNotLoaded ==
    /\ AVG_TEMP_DP = Absent
    /\ SUM_CACHE_DP = Absent
    /\ COUNTER_DP = Absent
    /\ HEATING_PERIOD_DP = Absent
    /\ LAST_RESET_DP = Absent
    /\ arrived = 0
    /\ sensorPc = [h \in Updates |-> "idle"]
    /\ sensorLoc = [h \in Updates |-> InitialSensorLocals]
    /\ dayPc = "idle"
    /\ dayLoc = InitialDayLocals
    /\ numericUpdates = 0
    /\ numericTotal = 0

\* ------------------------------------------------------------------- Init
TypeOK ==
    /\ simulationAktiv \in BOOLEAN
    /\ autoCreateOutputStates \in BOOLEAN
    /\ boot \in {"L373", "L375", "L377", "L379", "L507", "done"}
    /\ scheduled \in BOOLEAN
    /\ timerPending \in BOOLEAN
    /\ cycles \in 0..MaxCycles
    /\ \A r \in Runs :
          pc[r] \in {"idle", "L398", "L401", "L425", "L464", "L493", "L494", "rejected"}
                       \cup Returned

\* The script has been loaded: the start-up block (506-512) has called
\* createStates(), which ran up to its first await (373) or returned (370).
\* The state store holds what an earlier run of the installation left.
Init ==
    /\ simulationAktiv = FALSE
    /\ autoCreateOutputStates = TRUE
    /\ \/ /\ reglerleistung = Absent
          /\ systemStabilitaet = Absent
       \/ /\ reglerleistung \in {StateOf(f, TRUE) : f \in StoredFactors}
          /\ systemStabilitaet = StateOf(InitialStability, TRUE)
    /\ boot = IF autoCreateOutputStates THEN "L373" ELSE "L507"
    /\ scheduled = FALSE
    /\ timerPending = FALSE
    /\ pc = [r \in Runs |-> "idle"]
    /\ loc = [r \in Runs |-> InitialLocals]
    /\ cycles = 0
    /\ RoomNotLoaded
    /\ PeriodNotLoaded

\* ----------------------------------------------------- createStates (367-381)
\* await existsStateAsync(reglerleistungId) resumes.
Exists373 ==
    /\ boot = "L373"
    /\ boot' = IF reglerleistung.exists THEN "L377" ELSE "L375"
    /\ UNCHANGED <<periodScript, roomScript, config, outputs, scheduled, timerPending, pc, loc, cycles>>

\* createStateAsync(id, initValue, common): creates the datapoint with its
\* initial value unless it exists by now.
CreateState(state, initValue) ==
    IF state.exists THEN state ELSE StateOf(initValue, TRUE)

\* await createStateAsync(reglerleistungId, 1.0, ...) resumes; then 377.
Create375 ==
    /\ boot = "L375"
    /\ reglerleistung' = CreateState(reglerleistung, NeutralFactor)
    /\ boot' = "L377"
    /\ UNCHANGED <<periodScript, roomScript, config, systemStabilitaet, scheduled, timerPending, pc, loc, cycles>>

\* await existsStateAsync(systemStabilitaetId) resumes.
Exists377 ==
    /\ boot = "L377"
    /\ boot' = IF systemStabilitaet.exists THEN "L507" ELSE "L379"
    /\ UNCHANGED <<periodScript, roomScript, config, outputs, scheduled, timerPending, pc, loc, cycles>>

\* await createStateAsync(systemStabilitaetId, 0.5, ...) resumes.
Create379 ==
    /\ boot = "L379"
    /\ systemStabilitaet' = CreateState(systemStabilitaet, InitialStability)
    /\ boot' = "L507"
    /\ UNCHANGED <<periodScript, roomScript, config, reglerleistung, scheduled, timerPending, pc, loc, cycles>>

\* await createStates() resumes: schedule(...) and setTimeout(...) (509-511).
StartTriggers ==
    /\ boot = "L507"
    /\ boot' = "done"
    /\ scheduled' = TRUE
    /\ timerPending' = TRUE
    /\ UNCHANGED <<periodScript, roomScript, config, outputs, pc, loc, cycles>>

\* ------------------------------------------------------------ main (386-501)
\* getStateAsync(id): state ? state.val : fallback
ValOr(state, fallback) == IF state.exists THEN state.val ELSE fallback

\* Lines 405-417, entered with both values of step 1 known: the position
\* main() reaches, the query of line 425 being issued when both guards pass.
AfterGuards(heizperiodeAktiv, aktuelleSpreizung) ==
    IF ~heizperiodeAktiv THEN "R408"
    ELSE IF aktuelleSpreizung = NotANumber \/ aktuelleSpreizung < minSpreizungForLearning
         THEN "R416"
         ELSE "L425"

\* main() is called: 387-396 in simulation mode, up to the await of 398
\* otherwise.
CallMain(r) ==
    /\ cycles < MaxCycles
    /\ cycles' = cycles + 1
    /\ IF simulationAktiv
       THEN /\ pc' = [pc EXCEPT ![r] = AfterGuards(simHeizperiode, simAktuelleSpreizung)]
            /\ loc' = [loc EXCEPT ![r] =
                          [InitialLocals EXCEPT
                              !.heizperiodeAktiv = Value(simHeizperiode),
                              !.aktuelleSpreizung = Value(simAktuelleSpreizung)]]
       ELSE /\ pc' = [pc EXCEPT ![r] = "L398"]
            /\ loc' = [loc EXCEPT ![r] = InitialLocals]

\* setTimeout(main, 10000) fires, once.
TimerFires ==
    /\ timerPending
    /\ timerPending' = FALSE
    /\ CallMain("timer")
    /\ UNCHANGED <<periodScript, roomScript, config, outputs, boot, scheduled>>

\* The schedule fires (every 30 minutes); the invocation it started half an
\* hour earlier has returned.
CronFires ==
    /\ scheduled
    /\ ~InProgress("cron")
    /\ CallMain("cron")
    /\ UNCHANGED <<periodScript, roomScript, config, outputs, boot, scheduled, timerPending>>

\* await getStateAsync(svHeizperiodeId) resumes (398-399); then 401.
Read398(r) ==
    /\ pc[r] = "L398"
    /\ \E heizperiodeState \in HeizperiodeStates :
          loc' = [loc EXCEPT ![r].heizperiodeAktiv = Value(ValOr(heizperiodeState, FALSE))]
    /\ pc' = [pc EXCEPT ![r] = "L401"]
    /\ UNCHANGED <<periodScript, roomScript, config, outputs, startup, cycles>>

\* await getStateAsync(spreizungSensorId) resumes (401-402); then the guards
\* of 405-417 and the query of 425.
Read401(r) ==
    /\ pc[r] = "L401"
    /\ \E aktuelleSpreizungState \in SpreizungStates :
          LET aktuelleSpreizung == ValOr(aktuelleSpreizungState, 0)
              next == AfterGuards(loc[r].heizperiodeAktiv.val, aktuelleSpreizung)
          IN  /\ pc' = [pc EXCEPT ![r] = next]
              /\ loc' = IF next \in Returned
                        THEN [loc EXCEPT ![r] = InitialLocals]
                        ELSE [loc EXCEPT ![r].aktuelleSpreizung = Value(aktuelleSpreizung)]
    /\ UNCHANGED <<periodScript, roomScript, config, outputs, startup, cycles>>

\* The try block of 421-440 after the await of 425, given the reply m: it
\* throws when the promise rejected (425), when result.error is set (434) or
\* when result.result is missing or empty (435); otherwise it leaves the
\* sanitized values in historyData (438).
TryQuery(m) ==
    IF m.kind = "reject" \/ m.kind = "error" THEN [thrown |-> TRUE]
    ELSE IF m.kind = "noresult" \/ Len(m.result) = 0 THEN [thrown |-> TRUE]
    ELSE [thrown |-> FALSE, historyData |-> Sanitize(m.result)]

\* Variant: the exception leaves main().
Rethrow441 == "rejected"
\* catch (e) of 441-445: log the error and return from main().
Catch441 == "R444"

\* await sendToAsync(...) resumes (425) with the reply m of the history
\* adapter: 434-461 up to the await of 464.
Resume425With(r, m) ==
    /\ pc[r] = "L425"
    /\ LET try == TryQuery(m)
       IN  IF try.thrown
           THEN /\ pc' = [pc EXCEPT ![r] = Catch441]
                /\ loc' = [loc EXCEPT ![r] = InitialLocals]
           ELSE IF Len(try.historyData) < MinHistory
           THEN /\ pc' = [pc EXCEPT ![r] = "R450"]
                /\ loc' = [loc EXCEPT ![r] = InitialLocals]
           ELSE LET stabilityWindow == StabilityWindow(try.historyData)
                    mean == MeanOf(stabilityWindow)
                    variance == VarianceOf(stabilityWindow, mean)
                IN  /\ pc' = [pc EXCEPT ![r] = "L464"]
                    /\ loc' = [loc EXCEPT
                          ![r].stabilityWindow = Value(stabilityWindow),
                          ![r].mean = Value(mean),
                          ![r].variance = Value(variance),
                          ![r].stability = Value(StabilityOf(variance))]
    /\ UNCHANGED <<periodScript, roomScript, config, outputs, startup, cycles>>

\* In Spec the adapter returns lists of up to MinHistory items: too short
\* for an analysis, or just long enough.
Replies == FailureReplies \cup DataReplies(Items, MinHistory)
Resume425(r) == \E m \in Replies : Resume425With(r, m)

\* Variant: the fallback is 0.
PreviousFactorOrZero(state) == ValOr(state, 0)
\* currentReglerleistungState ? currentReglerleistungState.val : 1.0 (465)
PreviousFactor(state) == ValOr(state, NeutralFactor)

\* Variant: the writes are not skipped in simulation mode.
Read464WritesInSimulation(r) ==
    /\ pc[r] = "L464"
    /\ LET prev == PreviousFactor(reglerleistung)
           learned == Learn(prev, loc[r].mean.val, loc[r].stability.val)
       IN  /\ pc' = [pc EXCEPT ![r] = "L493"]
           /\ loc' = [loc EXCEPT
                 ![r].currentReglerleistung = Value(prev),
                 ![r].adjustmentCase = Value(learned.adjustmentCase),
                 ![r].newReglerleistung = Value(Clamp(learned.newReglerleistung))]
    /\ UNCHANGED <<periodScript, roomScript, config, outputs, startup, cycles>>
\* await getStateAsync(reglerleistungId) resumes (464): 465-491 up to the
\* await of 493, or to the end of main() in simulation mode.
Read464(r) ==
    /\ pc[r] = "L464"
    /\ LET prev == PreviousFactor(reglerleistung)
           learned == Learn(prev, loc[r].mean.val, loc[r].stability.val)
       IN  IF simulationAktiv
           THEN /\ pc' = [pc EXCEPT ![r] = "R501"]
                /\ loc' = [loc EXCEPT ![r] = InitialLocals]
           ELSE /\ pc' = [pc EXCEPT ![r] = "L493"]
                /\ loc' = [loc EXCEPT
                      ![r].currentReglerleistung = Value(prev),
                      ![r].adjustmentCase = Value(learned.adjustmentCase),
                      ![r].newReglerleistung = Value(Clamp(learned.newReglerleistung))]
    /\ UNCHANGED <<periodScript, roomScript, config, outputs, startup, cycles>>

\* Variant: main() returns after the first write when the rounded factor
\* equals the one it read.
Write493ThenReturn(r) ==
    /\ pc[r] = "L493"
    /\ systemStabilitaet' = StateOf(RatToFixed4(loc[r].stability.val), TRUE)
    /\ IF ToFixed4(loc[r].newReglerleistung.val) = loc[r].currentReglerleistung.val
       THEN /\ pc' = [pc EXCEPT ![r] = "R501"]
            /\ loc' = [loc EXCEPT ![r] = InitialLocals]
       ELSE /\ pc' = [pc EXCEPT ![r] = "L494"]
            /\ UNCHANGED loc
    /\ UNCHANGED <<periodScript, roomScript, config, reglerleistung, startup, cycles>>
\* Variant: the stability is not written.
Write493SkipsStability(r) ==
    /\ pc[r] = "L493"
    /\ pc' = [pc EXCEPT ![r] = "L494"]
    /\ UNCHANGED <<periodScript, roomScript, config, outputs, startup, loc, cycles>>
\* await setStateAsync(systemStabilitaetId, toFixed(4), true) resumes (493).
Write493(r) ==
    /\ pc[r] = "L493"
    /\ systemStabilitaet' = StateOf(RatToFixed4(loc[r].stability.val), TRUE)
    /\ pc' = [pc EXCEPT ![r] = "L494"]
    /\ UNCHANGED <<periodScript, roomScript, config, reglerleistung, startup, loc, cycles>>

\* await setStateAsync(reglerleistungId, toFixed(4), true) resumes (494);
\* main() runs to its end.
Write494(r) ==
    /\ pc[r] = "L494"
    /\ reglerleistung' = StateOf(ToFixed4(loc[r].newReglerleistung.val), TRUE)
    /\ pc' = [pc EXCEPT ![r] = "R501"]
    /\ loc' = [loc EXCEPT ![r] = InitialLocals]
    /\ UNCHANGED <<periodScript, roomScript, config, systemStabilitaet, startup, cycles>>

\* ------------------------------------------------------------ environment
\* An operator of the installation sets the factor datapoint (write: true in
\* its definition, 375); the value carries no ack.
ExternalOverride ==
    /\ reglerleistung.exists
    /\ reglerleistung' \in {StateOf(f, FALSE) : f \in Overrides} \ {reglerleistung}
    /\ UNCHANGED <<periodScript, roomScript, config, systemStabilitaet, startup, pc, loc, cycles>>

\* ------------------------------------------------------------------- Spec
Next ==
    \/ Exists373
    \/ Create375
    \/ Exists377
    \/ Create379
    \/ StartTriggers
    \/ TimerFires
    \/ CronFires
    \/ \E r \in Runs : Read398(r)
    \/ \E r \in Runs : Read401(r)
    \/ \E r \in Runs : Resume425(r)
    \/ \E r \in Runs : Read464(r)
    \/ \E r \in Runs : Write493(r)
    \/ \E r \in Runs : Write494(r)
    \/ ExternalOverride

Spec == Init /\ [][Next]_vars

\* ------------------------------------------------------------- ConfigSpec
\* The script under every setting of the two switches of CONFIG section A
\* (308, 311): with autoCreateOutputStates off the output datapoints are
\* not created at start, with simulationAktiv on main() takes the simulated
\* inputs and skips the writes.
ConfigInit ==
    /\ simulationAktiv \in BOOLEAN
    /\ autoCreateOutputStates \in BOOLEAN
    /\ \/ /\ reglerleistung = Absent
          /\ systemStabilitaet = Absent
       \/ /\ reglerleistung \in {StateOf(f, TRUE) : f \in StoredFactors}
          /\ systemStabilitaet = StateOf(InitialStability, TRUE)
    /\ boot = IF autoCreateOutputStates THEN "L373" ELSE "L507"
    /\ scheduled = FALSE
    /\ timerPending = FALSE
    /\ pc = [r \in Runs |-> "idle"]
    /\ loc = [r \in Runs |-> InitialLocals]
    /\ cycles = 0
    /\ RoomNotLoaded
    /\ PeriodNotLoaded

ConfigSpec == ConfigInit /\ [][Next]_vars

\* ---------------------------------------------------------------- EstSpec
\* One invocation of main() whose query has just been answered with data:
\* the start-up block is done, the timer invocation has returned, the cron
\* invocation waits at 425.  Replies range over every list of up to
\* MaxHistoryEst items, stored factors over the limits, values in between
\* and overrides outside the limits.
EstFactors ==
    {StateOf(f, TRUE) : f \in {LowerLimit, 3100, 9000, NeutralFactor, 12000, UpperLimit}}
        \cup {StateOf(f, FALSE) : f \in Overrides}
EstInit ==
    /\ simulationAktiv = FALSE
    /\ autoCreateOutputStates = TRUE
    /\ reglerleistung \in EstFactors
    /\ systemStabilitaet = StateOf(InitialStability, TRUE)
    /\ boot = "done"
    /\ scheduled = TRUE
    /\ timerPending = FALSE
    /\ pc = [r \in Runs |-> IF r = "cron" THEN "L425" ELSE "R408"]
    /\ loc = [r \in Runs |->
                 IF r = "cron"
                 THEN [InitialLocals EXCEPT !.heizperiodeAktiv = Value(TRUE),
                                            !.aktuelleSpreizung = Value(20)]
                 ELSE InitialLocals]
    /\ cycles = MaxCycles
    /\ RoomNotLoaded
    /\ PeriodNotLoaded

EstReplies == DataReplies(ItemsEst, MaxHistoryEst)
EstResume425 == \E m \in EstReplies : Resume425With("cron", m)

EstNext ==
    \/ EstResume425
    \/ Read464("cron")
    \/ Write493("cron")
    \/ Write494("cron")

EstSpec == EstInit /\ [][EstNext]_vars

\* ------------------------------------------- room control: main (part_001, 111-277)
\* states[key] is the value of the datapoint or null (124-127); the model
\* keeps what getStateAsync returned, Absent standing for null.  Contacts
\* report a boolean or a number: their values are "true", "false", "1", "0".
Truthy(state) == state.exists /\ state.val
\* states.x || fallback, for a number: null and 0 give the fallback.
NumberOr(state, fallback) ==
    IF state.exists /\ state.val # 0 THEN state.val ELSE fallback

\* 133, 134, 195, 220
AussenSensorOK(s) ==
    /\ s.aussenTempSensor.exists
    /\ s.aussenTempSensor.val > aussenTempMin
    /\ s.aussenTempSensor.val < aussenTempMax
FeuchteSensorOK(s) ==
    /\ s.feuchteSensor.exists
    /\ s.feuchteSensor.val >= feuchteMin
    /\ s.feuchteSensor.val <= feuchteMax
WandSensorOberflaecheOK(s) ==
    s.wandSensorOberflaeche.exists /\ s.wandSensorOberflaeche.val < wandTempMax
WandSensorKernOK(s) ==
    s.wandSensorKern.exists /\ s.wandSensorKern.val < wandTempMax

\* 148: CONFIG.tuerSensorNutzen && states.tuerSensor === 0
TuerIstGeschlossen(s) ==
    tuerSensorNutzen /\ s.tuerSensor.exists /\ s.tuerSensor.val = "0"
\* 149: states.fensterKontakte.some(state => state === true || state === 1)
FensterIstOffen(s) ==
    \E i \in 1..Len(s.fensterKontakte) :
        /\ s.fensterKontakte[i].exists
        /\ s.fensterKontakte[i].val \in {"true", "1"}

\* 138-145: the two base temperatures, in tenths of a degree.
SollTempAbwesend(s) == NumberOr(s.sollTempAbwesend, sollTempAbwesendFallback)
SollTempAnwesend(s) ==
    IF nachtschaltungNutzen /\ Truthy(s.nachtschaltung)
    THEN SollTempAbwesend(s)
    ELSE NumberOr(s.sollTempAnwesend, sollTempAnwesendFallback)

\* 160-176: the flag istSonderfall and the base temperature (tenths).
IstSonderfall(s) == ~Truthy(s.heizPeriode) \/ FensterIstOffen(s)
BasisSollTemp(s) ==
    IF Truthy(s.heizPeriode)
    THEN IF FensterIstOffen(s) THEN tempFensterOffen
         ELSE IF Truthy(s.anwesenheit)
              THEN IF tuerSensorNutzen /\ ~TuerIstGeschlossen(s)
                   THEN SollTempAbwesend(s)
                   ELSE SollTempAnwesend(s)
              ELSE SollTempAbwesend(s)
    ELSE tempHeizperiodeAus

\* Math.log(h / 100) in units of 1e-4 for the humidities the model uses
\* (multiples of 10 %); Math.log(0) is -Infinity and is handled in Taupunkt.
LnPercent ==
    [h \in {10, 20, 30, 40, 50, 60, 70, 80, 90, 100} |->
        CASE h = 10 -> -23026 [] h = 20 -> -16094 [] h = 30 -> -12040
          [] h = 40 -> -9163  [] h = 50 -> -6931  [] h = 60 -> -5108
          [] h = 70 -> -3567  [] h = 80 -> -2231  [] h = 90 -> -1054
          [] h = 100 -> 0]
\* 199-201 with a = 7.5 and b = 237.3: the dew point in hundredths of a
\* degree, for a temperature t in units of 1e-7 taken to hundredths and a
\* humidity h > 0; sdd is kept in units of 1e-4.
Taupunkt(t, h) ==
    LET t100 == t \div Hundredth
        sdd == (75000 * t100) \div (23730 + t100) + LnPercent[h]
    IN  (23730 * sdd) \div (75000 - sdd)
\* 203: states.wandSensorOberflaeche < taupunkt + sicherheitsabstandTaupunkt.
\* With a humidity of 0 the dew point is NaN and the comparison is false.
NaheTaupunkt(t, s) ==
    /\ s.feuchteSensor.val > 0
    /\ 10 * s.wandSensorOberflaeche.val
           < Taupunkt(t, s.feuchteSensor.val) + 10 * sicherheitsabstandTaupunkt

\* 181-187: weather compensation with the learned factor (140, 184-185).
NachAussenTemp(t, s) ==
    IF AussenSensorOK(s) /\ s.aussenTempSensor.val < aussenTempNeutral
    THEN t + (aussenTempNeutral - s.aussenTempSensor.val) * heizkurvenfaktor
                 * NumberOr(s.reglerleistung, NeutralFactor)
    ELSE t
\* 190-193: humidity
NachFeuchte(t, s) ==
    IF FeuchteSensorOK(s)
    THEN t + (luftfeuchteOptimal - s.feuchteSensor.val) * feuchteKorrekturfaktor * Hundredth
    ELSE t
\* 197-208: mold protection
NachSchimmelSchutz(t, s) ==
    IF /\ schimmelSchutzAktiv
       /\ FeuchteSensorOK(s)
       /\ WandSensorOberflaecheOK(s)
       /\ NaheTaupunkt(t, s)
    THEN t + offsetSchimmelSchutz * Tenth
    ELSE t
\* 211-218: comfort
NachBehaglichkeit(t, s) ==
    IF /\ behaglichkeitAktiv
       /\ WandSensorOberflaecheOK(s)
       /\ t - s.wandSensorOberflaeche.val * Tenth > maxTempDifferenzWand * Tenth
    THEN t + offsetBehaglichkeit * Tenth
    ELSE t
\* 222-231: heating load
NachHeizlast(t, s) ==
    IF /\ heizlastAktiv
       /\ WandSensorOberflaecheOK(s)
       /\ WandSensorKernOK(s)
       /\ s.wandSensorKern.val - s.wandSensorOberflaeche.val > 0
    THEN t + (s.wandSensorKern.val - s.wandSensorOberflaeche.val)
                 * heizlastKorrekturfaktor * Hundredth
    ELSE t
\* 179-235: the dynamic adjustments, in the order of the source.
Anpassungen(t, s) ==
    NachHeizlast(NachBehaglichkeit(NachSchimmelSchutz(NachFeuchte(NachAussenTemp(t, s), s), s), s), s)
        + temperaturOffset * Tenth

\* Variant: the lower limit is not applied.
LimitSollTempUpperOnly(t) == IF t > maxSollTemp * Tenth THEN maxSollTemp * Tenth ELSE t
\* 240-241
LimitSollTemp(t) ==
    LET high == IF t > maxSollTemp * Tenth THEN maxSollTemp * Tenth ELSE t
    IN  IF high < minSollTemp * Tenth THEN minSollTemp * Tenth ELSE high
\* 245: Math.round(t * 2) / 2, a half rounded up.
RoundToHalf(t) == ((2 * t + HalfDegree) \div (10 * Tenth)) * HalfDegree
\* Variant: the limits are applied in the special cases too.
FinalizeAlwaysLimited(t, istSonderfall) == RoundToHalf(LimitSollTemp(t))
\* 239-245
Finalize(t, istSonderfall) ==
    RoundToHalf(IF ~istSonderfall THEN LimitSollTemp(t) ELSE t)

\* 131-245: neueSollTemp (units of 1e-7) from the collected states.
NeueSollTemp(s) ==
    LET istSonderfall == IstSonderfall(s)
        basis == BasisSollTemp(s) * Tenth
    IN  Finalize(IF ~istSonderfall THEN Anpassungen(basis, s) ELSE basis, istSonderfall)

\* What getStateAsync finds in the datapoints of CONFIG.ids and
\* CONFIG.devices, all owned by the host or by devices.
BooleanStates == {Absent, StateOf(TRUE, TRUE), StateOf(FALSE, TRUE)}
ContactStates == {Absent} \cup {StateOf(v, TRUE) : v \in {"true", "false", "1", "0"}}
RoomInputs ==
    [heizPeriode : BooleanStates,
     anwesenheit : {StateOf(TRUE, TRUE), StateOf(FALSE, TRUE)},
     nachtschaltung : {StateOf(TRUE, TRUE), StateOf(FALSE, TRUE)},
     sollTempAnwesend : {Absent, StateOf(215, TRUE)},
     sollTempAbwesend : {Absent, StateOf(170, TRUE)},
     fensterKontakte : {<<c>> : c \in ContactStates},
     tuerSensor : ContactStates,
     aussenTempSensor : {Absent, StateOf(-100, TRUE), StateOf(130, TRUE)},
     feuchteSensor : {Absent, StateOf(30, TRUE), StateOf(100, TRUE)},
     wandSensorOberflaeche : {Absent, StateOf(150, TRUE)},
     wandSensorKern : {Absent, StateOf(200, TRUE)}]
\* The one input used where the triggers are explored.
TriggerInputs ==
    [heizPeriode : {StateOf(TRUE, TRUE)},
     anwesenheit : {StateOf(TRUE, TRUE)},
     nachtschaltung : {StateOf(FALSE, TRUE)},
     sollTempAnwesend : {Absent},
     sollTempAbwesend : {Absent},
     fensterKontakte : {<<StateOf("false", TRUE)>>},
     tuerSensor : {StateOf("0", TRUE)},
     aussenTempSensor : {Absent},
     feuchteSensor : {Absent},
     wandSensorOberflaeche : {Absent},
     wandSensorKern : {Absent}]

RoomReturned(r) == roomPc[r] \in {"idle", "R277"}

\* The awaits of the loop 116-129 resume one after another, each read
\* finding some value of its datapoint (the factor: the one the learning
\* script left); then 131-245 and the first pass of the loop of 248 up to
\* the await of 249.
Collect(r, inputs) ==
    /\ roomPc[r] = "L124"
    /\ \E in \in inputs :
          LET s == [heizPeriode |-> in.heizPeriode, anwesenheit |-> in.anwesenheit,
                    nachtschaltung |-> in.nachtschaltung,
                    sollTempAnwesend |-> in.sollTempAnwesend,
                    sollTempAbwesend |-> in.sollTempAbwesend,
                    reglerleistung |-> reglerleistung,
                    fensterKontakte |-> in.fensterKontakte,
                    tuerSensor |-> in.tuerSensor,
                    aussenTempSensor |-> in.aussenTempSensor,
                    feuchteSensor |-> in.feuchteSensor,
                    wandSensorOberflaeche |-> in.wandSensorOberflaeche,
                    wandSensorKern |-> in.wandSensorKern]
          IN  roomLoc' = [roomLoc EXCEPT ![r] =
                  [@ EXCEPT !.heizPeriode = Value(s.heizPeriode),
                            !.anwesenheit = Value(s.anwesenheit),
                            !.tuerSensor = Value(s.tuerSensor),
                            !.fensterKontakte = Value(s.fensterKontakte),
                            !.fensterIstOffen = Value(FensterIstOffen(s)),
                            !.tuerIstGeschlossen = Value(TuerIstGeschlossen(s)),
                            !.sollTempAnwesend = Value(SollTempAnwesend(s)),
                            !.sollTempAbwesend = Value(SollTempAbwesend(s)),
                            !.basisSollTemp = Value(BasisSollTemp(s)),
                            !.istSonderfall = Value(IstSonderfall(s)),
                            !.neueSollTemp = Value(NeueSollTemp(s)),
                            !.startedAfterChange = FALSE]]
    /\ roomPc' = [roomPc EXCEPT ![r] = "L249"]
    /\ inputChange' = IF ~roomLoc[r].startedAfterChange THEN inputChange
                      ELSE IF inputChange = "changed" THEN "read"
                      ELSE IF inputChange = "dropped" THEN "recovered"
                      ELSE inputChange
    /\ UNCHANGED <<periodScript, learningScript, lastRunTimestamp, rateLimited, startTimerPending,
                   setPointTemperature, controlMode, sinceLastStart>>

\* Variant: >= instead of >.
SollwertGeaendertOrEqual(neueSollTemp, aktuellEingestellteTemp) ==
    \/ neueSollTemp - aktuellEingestellteTemp * Tenth >= hysterese * Tenth
    \/ aktuellEingestellteTemp * Tenth - neueSollTemp >= hysterese * Tenth
\* 252: Math.abs(neueSollTemp - aktuellEingestellteTemp) > CONFIG.hysterese
SollwertGeaendert(neueSollTemp, aktuellEingestellteTemp) ==
    \/ neueSollTemp - aktuellEingestellteTemp * Tenth > hysterese * Tenth
    \/ aktuellEingestellteTemp * Tenth - neueSollTemp > hysterese * Tenth

\* await getStateAsync(thermostatId) resumes (249): 249-254 up to the await
\* of 255, or 261-276 and the end of main() when nothing is to be written.
Read249(r) ==
    /\ roomPc[r] = "L249"
    /\ LET aktuellEingestellteTemp ==
               NumberOr(setPointTemperature, aktuellEingestellteTempFallback)
           sollwertGeaendert ==
               SollwertGeaendert(roomLoc[r].neueSollTemp.val, aktuellEingestellteTemp)
       IN  IF sollwertGeaendert
           THEN /\ roomPc' = [roomPc EXCEPT ![r] = "L255"]
                /\ roomLoc' = [roomLoc EXCEPT
                      ![r].aktuellEingestellteTemp = Value(aktuellEingestellteTemp),
                      ![r].sollwertGeaendert = Value(sollwertGeaendert)]
           ELSE /\ roomPc' = [roomPc EXCEPT ![r] = "R277"]
                /\ roomLoc' = [roomLoc EXCEPT ![r] = InitialRoomLocals]
    /\ UNCHANGED <<periodScript, learningScript, lastRunTimestamp, rateLimited, startTimerPending,
                   setPointTemperature, controlMode, sinceLastStart, inputChange>>

\* await setStateAsync(thermostatId, neueSollTemp) resumes (255): the
\* setpoint, in tenths of a degree, is written as a command (no ack).
Write255(r) ==
    /\ roomPc[r] = "L255"
    /\ setPointTemperature' = StateOf(roomLoc[r].neueSollTemp.val \div Tenth, FALSE)
    /\ roomPc' = [roomPc EXCEPT ![r] = "L258"]
    /\ UNCHANGED <<periodScript, learningScript, lastRunTimestamp, rateLimited, startTimerPending,
                   roomLoc, controlMode, sinceLastStart, inputChange>>

\* await setStateAsync(controlModeId, 1, true) resumes (258); 261-276 and
\* the end of main().
Write258(r) ==
    /\ roomPc[r] = "L258"
    /\ controlMode' = StateOf(1, TRUE)
    /\ roomPc' = [roomPc EXCEPT ![r] = "R277"]
    /\ roomLoc' = [roomLoc EXCEPT ![r] = InitialRoomLocals]
    /\ UNCHANGED <<periodScript, learningScript, lastRunTimestamp, rateLimited, startTimerPending,
                   setPointTemperature, sinceLastStart, inputChange>>

\* ------------------------------ room control: rateLimitedMain and triggers (282-363)
\* main() is entered by the invocation with the lowest free number and runs
\* up to its first await (124).
CallRoomMain ==
    /\ \E r \in RoomRuns : RoomReturned(r)
    /\ LET r == CHOOSE q \in RoomRuns :
                   RoomReturned(q) /\ \A p \in RoomRuns : RoomReturned(p) => q <= p
       IN  /\ roomPc' = [roomPc EXCEPT ![r] = "L124"]
           /\ roomLoc' = [roomLoc EXCEPT ![r] =
                  [InitialRoomLocals EXCEPT
                      !.startedAfterChange = (inputChange \in {"changed", "dropped"})]]
    /\ sinceLastStart' = 0

\* Bookkeeping of the input change: a trigger that arrives after the change
\* is dropped by the cooldown.
AfterDrop == IF inputChange = "changed" THEN "dropped" ELSE inputChange

\* Variant: lastRunTimestamp is not updated.
RateLimitedMainNoStamp(triggerInfo) ==
    /\ IF 0 - lastRunTimestamp < COOLDOWN_MS
       THEN /\ rateLimited' = "R289"
            /\ inputChange' = AfterDrop
            /\ UNCHANGED <<lastRunTimestamp, roomPc, roomLoc, sinceLastStart>>
       ELSE /\ UNCHANGED <<lastRunTimestamp, inputChange>>
            /\ rateLimited' = "L314"
            /\ CallRoomMain
    /\ UNCHANGED <<periodScript, learningScript, setPointTemperature, controlMode>>
\* Variant: lastRunTimestamp is set before the cooldown is tested.
RateLimitedMainStampFirst(triggerInfo) ==
    /\ lastRunTimestamp' = 0
    /\ rateLimited' = "R289"
    /\ inputChange' = AfterDrop
    /\ UNCHANGED <<roomPc, roomLoc, sinceLastStart>>
    /\ UNCHANGED <<periodScript, learningScript, setPointTemperature, controlMode>>
\* rateLimitedMain(triggerInfo), 286-315, with now = Date.now() = 0: it
\* returns at 289 while the cooldown is active, and otherwise sets
\* lastRunTimestamp and calls main().
RateLimitedMain(triggerInfo) ==
    /\ IF 0 - lastRunTimestamp < COOLDOWN_MS
       THEN /\ rateLimited' = "R289"
            /\ inputChange' = AfterDrop
            /\ UNCHANGED <<lastRunTimestamp, roomPc, roomLoc, sinceLastStart>>
       ELSE /\ lastRunTimestamp' = 0
            /\ rateLimited' = "L314"
            /\ UNCHANGED inputChange
            /\ CallRoomMain
    /\ UNCHANGED <<periodScript, learningScript, setPointTemperature, controlMode>>

\* on(triggerIds, rateLimitedMain) (331): one of the system variables or
\* contacts has changed.
StateChangeTrigger ==
    /\ RateLimitedMain("SystemVariable")
    /\ UNCHANGED startTimerPending

\* The handlers of 335-355: a sensor value has changed from old to new; the
\* handler calls rateLimitedMain when the change reaches the threshold.
SensorValues == {200, 203, 210}
ThresholdTrigger(threshold) ==
    \E old, new \in SensorValues :
        /\ old # new
        /\ IF (new - old >= threshold) \/ (old - new >= threshold)
           THEN RateLimitedMain("Sensor")
           ELSE UNCHANGED <<periodScript, learningScript, roomScript>>
        /\ UNCHANGED startTimerPending
RaumTempTrigger == ThresholdTrigger(raumTempTriggerThreshold)
FeuchteTrigger == ThresholdTrigger(luftfeuchteTriggerThreshold)
AussenTempTrigger == ThresholdTrigger(aussenTempTriggerThreshold)

\* schedule('9,24,39,54 * * * *', rateLimitedMain) (360)
PeriodicTrigger ==
    /\ RateLimitedMain("Periodic Trigger")
    /\ UNCHANGED startTimerPending

\* setTimeout(() => rateLimitedMain({ id: 'Initial Start', ... }), 1500) (363)
InitialStart ==
    /\ startTimerPending
    /\ startTimerPending' = FALSE
    /\ RateLimitedMain("Initial Start")

\* Time passes: Date.now() advances by d milliseconds.
TickSizes == {1000, 1999}
Tick ==
    \E d \in TickSizes :
        /\ lastRunTimestamp' =
               IF lastRunTimestamp - d < -COOLDOWN_MS THEN -COOLDOWN_MS
               ELSE lastRunTimestamp - d
        /\ sinceLastStart' =
               IF sinceLastStart + d > COOLDOWN_MS THEN COOLDOWN_MS
               ELSE sinceLastStart + d
        /\ <<lastRunTimestamp', sinceLastStart'>> # <<lastRunTimestamp, sinceLastStart>>
        /\ UNCHANGED <<periodScript, learningScript, rateLimited, startTimerPending, roomPc, roomLoc,
                       setPointTemperature, controlMode, inputChange>>

\* One of the inputs changes; whether a trigger follows is up to the host.
InputChanges ==
    /\ inputChange = "none"
    /\ inputChange' = "changed"
    /\ UNCHANGED <<periodScript, learningScript, lastRunTimestamp, rateLimited, startTimerPending,
                   roomPc, roomLoc, setPointTemperature, controlMode, sinceLastStart>>

\* ---------------------------------------------------------------- RoomSpec
\* The learning script is at rest and has left some factor.
RoomFactors == {Absent, StateOf(UpperLimit, TRUE), StateOf(0, FALSE)}
LearningAtRest ==
    /\ simulationAktiv = FALSE
    /\ autoCreateOutputStates = TRUE
    /\ systemStabilitaet = StateOf(InitialStability, TRUE)
    /\ boot = "done"
    /\ scheduled = TRUE
    /\ timerPending = FALSE
    /\ pc = [r \in Runs |-> "R408"]
    /\ loc = [r \in Runs |-> InitialLocals]
    /\ cycles = MaxCycles

\* Setpoints found at the thermostat (tenths of a degree), and its modes.
SetPoints == {Absent} \cup {StateOf(v, TRUE) : v \in {0, 45, 165, 210}}
ControlModes == {StateOf(0, TRUE), StateOf(1, TRUE)}

\* The room script has been loaded (282-363): its triggers are registered
\* and the start timer runs.  One run of main() over every input.
RoomInit ==
    /\ LearningAtRest
    /\ PeriodNotLoaded
    /\ reglerleistung \in RoomFactors
    /\ lastRunTimestamp = -COOLDOWN_MS
    /\ rateLimited = NotCalled
    /\ startTimerPending = TRUE
    /\ roomPc = [r \in RoomRuns |-> "idle"]
    /\ roomLoc = [r \in RoomRuns |-> InitialRoomLocals]
    /\ setPointTemperature \in SetPoints
    /\ controlMode \in ControlModes
    /\ sinceLastStart = COOLDOWN_MS
    /\ inputChange = "none"

RoomNext ==
    \/ InitialStart
    \/ \E r \in RoomRuns : Collect(r, RoomInputs)
    \/ \E r \in RoomRuns : Read249(r)
    \/ \E r \in RoomRuns : Write255(r)
    \/ \E r \in RoomRuns : Write258(r)

RoomSpec == RoomInit /\ [][RoomNext]_vars

\* -------------------------------------------------------------- TriggerSpec
\* The room script under every sequence of triggers and passages of time.
TriggerInit ==
    /\ LearningAtRest
    /\ PeriodNotLoaded
    /\ reglerleistung = StateOf(NeutralFactor, TRUE)
    /\ lastRunTimestamp = -COOLDOWN_MS
    /\ rateLimited = NotCalled
    /\ startTimerPending = TRUE
    /\ roomPc = [r \in RoomRuns |-> "idle"]
    /\ roomLoc = [r \in RoomRuns |-> InitialRoomLocals]
    /\ setPointTemperature = StateOf(45, TRUE)
    /\ controlMode = StateOf(1, TRUE)
    /\ sinceLastStart = COOLDOWN_MS
    /\ inputChange = "none"

TriggerNext ==
    \/ InitialStart
    \/ StateChangeTrigger
    \/ RaumTempTrigger
    \/ FeuchteTrigger
    \/ AussenTempTrigger
    \/ PeriodicTrigger
    \/ Tick
    \/ InputChanges
    \/ \E r \in RoomRuns : Collect(r, TriggerInputs)
    \/ \E r \in RoomRuns : Read249(r)
    \/ \E r \in RoomRuns : Write255(r)
    \/ \E r \in RoomRuns : Write258(r)

TriggerSpec == TriggerInit /\ [][TriggerNext]_vars

\* The same with the scheduling of the host: time passes, the periodic
\* trigger keeps firing, and every pending await of main() resumes.
TriggerFairness ==
    /\ WF_vars(Tick)
    /\ WF_vars(PeriodicTrigger)
    /\ \A r \in RoomRuns :
          /\ WF_vars(Collect(r, TriggerInputs))
          /\ WF_vars(Read249(r))
          /\ WF_vars(Write255(r))
          /\ WF_vars(Write258(r))
TriggerLiveSpec == TriggerSpec /\ TriggerFairness

\* ============================== heating period script (part_001, 367-509)
\* ------------------------------------------ sensor handler (442-461)
\* Variant: a value that converts to a number is accepted too.
IsNumberOrNumeric(currentTemp) == currentTemp.type \in {"number", "string"}
\* typeof currentTemp !== 'number' (446), negated.
IsNumber(currentTemp) == currentTemp.type = "number"

\* (await getStateAsync(id)).val || 0 (452, 453) on an existing datapoint.
ValOrZero(state) == IF state.val # 0 THEN state.val ELSE 0

\* The sensor delivers an update: the handler runs up to the return of 448
\* or to the await of 452.
SensorUpdateWith(state) ==
    /\ arrived < MaxUpdates
    /\ arrived' = arrived + 1
    /\ IF IsNumber(state)
       THEN /\ sensorPc' = [sensorPc EXCEPT ![arrived + 1] = "L452"]
            /\ sensorLoc' = [sensorLoc EXCEPT
                  ![arrived + 1].currentTemp = Value(state.number)]
            /\ numericUpdates' = numericUpdates + 1
            /\ numericTotal' = numericTotal + state.number
       ELSE /\ sensorPc' = [sensorPc EXCEPT ![arrived + 1] = "R448"]
            /\ UNCHANGED <<sensorLoc, numericUpdates, numericTotal>>
    /\ UNCHANGED <<learningScript, roomScript, AVG_TEMP_DP, SUM_CACHE_DP, COUNTER_DP,
                   HEATING_PERIOD_DP, LAST_RESET_DP, dayPc, dayLoc>>
SensorUpdate == \E state \in SensorUpdates : SensorUpdateWith(state)

\* await getStateAsync(SUM_CACHE_DP) resumes (452).
Read452(h) ==
    /\ sensorPc[h] = "L452"
    /\ sensorPc' = [sensorPc EXCEPT ![h] = "L453"]
    /\ sensorLoc' = [sensorLoc EXCEPT ![h].oldSum = Value(ValOrZero(SUM_CACHE_DP))]
    /\ UNCHANGED <<learningScript, roomScript, AVG_TEMP_DP, SUM_CACHE_DP, COUNTER_DP,
                   HEATING_PERIOD_DP, LAST_RESET_DP, arrived, dayPc, dayLoc,
                   numericUpdates, numericTotal>>

\* await getStateAsync(COUNTER_DP) resumes (453): 455-456 up to the await
\* of 459.
Read453(h) ==
    /\ sensorPc[h] = "L453"
    /\ sensorPc' = [sensorPc EXCEPT ![h] = "L459"]
    /\ sensorLoc' = [sensorLoc EXCEPT ![h] =
          [InitialSensorLocals EXCEPT
              !.newSum = Value(sensorLoc[h].oldSum.val + sensorLoc[h].currentTemp.val),
              !.newCounter = Value(ValOrZero(COUNTER_DP) + 1)]]
    /\ UNCHANGED <<learningScript, roomScript, AVG_TEMP_DP, SUM_CACHE_DP, COUNTER_DP,
                   HEATING_PERIOD_DP, LAST_RESET_DP, arrived, dayPc, dayLoc,
                   numericUpdates, numericTotal>>

\* await setStateAsync(SUM_CACHE_DP, newSum, true) resumes (459).
Write459(h) ==
    /\ sensorPc[h] = "L459"
    /\ SUM_CACHE_DP' = StateOf(sensorLoc[h].newSum.val, TRUE)
    /\ sensorPc' = [sensorPc EXCEPT ![h] = "L460"]
    /\ sensorLoc' = [sensorLoc EXCEPT ![h].newSum = NoValue]
    /\ UNCHANGED <<learningScript, roomScript, AVG_TEMP_DP, COUNTER_DP,
                   HEATING_PERIOD_DP, LAST_RESET_DP, arrived, dayPc, dayLoc,
                   numericUpdates, numericTotal>>

\* await setStateAsync(COUNTER_DP, newCounter, true) resumes (460); the
\* handler returns.
Write460(h) ==
    /\ sensorPc[h] = "L460"
    /\ COUNTER_DP' = StateOf(sensorLoc[h].newCounter.val, TRUE)
    /\ sensorPc' = [sensorPc EXCEPT ![h] = "R461"]
    /\ sensorLoc' = [sensorLoc EXCEPT ![h] = InitialSensorLocals]
    /\ UNCHANGED <<learningScript, roomScript, AVG_TEMP_DP, SUM_CACHE_DP,
                   HEATING_PERIOD_DP, LAST_RESET_DP, arrived, dayPc, dayLoc,
                   numericUpdates, numericTotal>>

\* ------------------------------------------ end-of-day schedule (468-509)
\* (counter > 0) ? (sum / counter) : 0 (476), in tenths of a degree.
DailyAverage(sum, counter) == IF counter > 0 THEN Rat(sum, counter) ELSE Rat(0, 1)

\* parseFloat(dailyAverage.toFixed(2)) (477): the nearest hundredth, a half
\* rounded away from zero.
ToFixed2(dailyAverage) ==
    LET n == 10 * dailyAverage.num
        d == dailyAverage.den
    IN  IF n >= 0 THEN (2 * n + d) \div (2 * d)
        ELSE -((2 * (-n) + d) \div (2 * d))

\* String(n).padStart(2, '0') (485, 486): the two digits.
PadStart2(n) == IF n < 10 THEN <<0, n>> ELSE <<n \div 10, n % 10>>
\* `${day}.${monthFormatted}.${year}` (485-488): the parts between the dots.
DateString(now) ==
    <<PadStart2(now.getDate), PadStart2(now.getMonth + 1), now.getFullYear>>

\* month >= 10 || month <= 5 (495)
IsHeatingTimeframe(month) == month >= 10 \/ month <= 5
\* Variant: the limit itself is not below the limit.
IsBelowHeatingLimitStrict(dailyAverage) ==
    RatLt(dailyAverage, Rat(HEATING_LIMIT_TEMP, 1))
\* dailyAverage <= HEATING_LIMIT_TEMP (496)
IsBelowHeatingLimit(dailyAverage) ==
    RatLe(dailyAverage, Rat(HEATING_LIMIT_TEMP, 1))
\* heatingPeriodActive (494-497)
HeatingPeriodActive(dailyAverage, now) ==
    IsBelowHeatingLimit(dailyAverage) /\ IsHeatingTimeframe(now.getMonth + 1)

\* The schedule of 468 fires: the callback runs up to the await of 472.
\* The runs are a day apart: the one before has finished.
EndOfDayFires ==
    /\ dayPc \in {"idle", "R509"}
    /\ dayPc' = "L472"
    /\ UNCHANGED <<learningScript, roomScript, AVG_TEMP_DP, SUM_CACHE_DP, COUNTER_DP,
                   HEATING_PERIOD_DP, LAST_RESET_DP, arrived, sensorPc, sensorLoc,
                   dayLoc, numericUpdates, numericTotal>>

\* await getStateAsync(SUM_CACHE_DP) resumes (472).
Read472 ==
    /\ dayPc = "L472"
    /\ dayPc' = "L473"
    /\ dayLoc' = [dayLoc EXCEPT !.sum = Value(SUM_CACHE_DP.val)]
    /\ UNCHANGED <<learningScript, roomScript, AVG_TEMP_DP, SUM_CACHE_DP, COUNTER_DP,
                   HEATING_PERIOD_DP, LAST_RESET_DP, arrived, sensorPc, sensorLoc,
                   numericUpdates, numericTotal>>

\* await getStateAsync(COUNTER_DP) resumes (473): 476 up to the await of 477.
Read473 ==
    /\ dayPc = "L473"
    /\ dayPc' = "L477"
    /\ dayLoc' = [dayLoc EXCEPT
          !.counter = Value(COUNTER_DP.val),
          !.dailyAverage = Value(DailyAverage(dayLoc.sum.val, COUNTER_DP.val))]
    /\ UNCHANGED <<learningScript, roomScript, AVG_TEMP_DP, SUM_CACHE_DP, COUNTER_DP,
                   HEATING_PERIOD_DP, LAST_RESET_DP, arrived, sensorPc, sensorLoc,
                   numericUpdates, numericTotal>>

\* await setStateAsync(AVG_TEMP_DP, ...) resumes (477): the log of 478, up
\* to the await of 481.
Write477 ==
    /\ dayPc = "L477"
    /\ AVG_TEMP_DP' = StateOf(ToFixed2(dayLoc.dailyAverage.val), TRUE)
    /\ dayPc' = "L481"
    /\ dayLoc' = [dayLoc EXCEPT !.sum = NoValue, !.counter = NoValue]
    /\ UNCHANGED <<learningScript, roomScript, SUM_CACHE_DP, COUNTER_DP,
                   HEATING_PERIOD_DP, LAST_RESET_DP, arrived, sensorPc, sensorLoc,
                   numericUpdates, numericTotal>>

\* await setStateAsync(SUM_CACHE_DP, 0, true) resumes (481).
Write481 ==
    /\ dayPc = "L481"
    /\ SUM_CACHE_DP' = StateOf(0, TRUE)
    /\ numericTotal' = 0
    /\ dayPc' = "L482"
    /\ UNCHANGED <<learningScript, roomScript, AVG_TEMP_DP, COUNTER_DP,
                   HEATING_PERIOD_DP, LAST_RESET_DP, arrived, sensorPc, sensorLoc,
                   dayLoc, numericUpdates>>

\* await setStateAsync(COUNTER_DP, 0, true) resumes (482): new Date() and
\* the date string (484-488), up to the await of 489.
Write482 ==
    /\ dayPc = "L482"
    /\ COUNTER_DP' = StateOf(0, TRUE)
    /\ numericUpdates' = 0
    /\ dayPc' = "L489"
    /\ \E now \in Dates : dayLoc' = [dayLoc EXCEPT !.now = Value(now)]
    /\ UNCHANGED <<learningScript, roomScript, AVG_TEMP_DP, SUM_CACHE_DP,
                   HEATING_PERIOD_DP, LAST_RESET_DP, arrived, sensorPc, sensorLoc,
                   numericTotal>>

\* await setStateAsync(LAST_RESET_DP, dateString, true) resumes (489):
\* 491-497 up to the await of 499.
Write489 ==
    /\ dayPc = "L489"
    /\ LAST_RESET_DP' = StateOf(DateString(dayLoc.now.val), TRUE)
    /\ dayPc' = "L499"
    /\ UNCHANGED <<learningScript, roomScript, AVG_TEMP_DP, SUM_CACHE_DP, COUNTER_DP,
                   HEATING_PERIOD_DP, arrived, sensorPc, sensorLoc, dayLoc,
                   numericUpdates, numericTotal>>

\* await setStateAsync(HEATING_PERIOD_DP, heatingPeriodActive, true)
\* resumes (499); the callback runs to its end.
Write499 ==
    /\ dayPc = "L499"
    /\ HEATING_PERIOD_DP' =
          StateOf(HeatingPeriodActive(dayLoc.dailyAverage.val, dayLoc.now.val), TRUE)
    /\ dayPc' = "R509"
    /\ dayLoc' = InitialDayLocals
    /\ UNCHANGED <<learningScript, roomScript, AVG_TEMP_DP, SUM_CACHE_DP, COUNTER_DP,
                   LAST_RESET_DP, arrived, sensorPc, sensorLoc,
                   numericUpdates, numericTotal>>

\* ------------------------------------------------------- AccumulatorSpec
\* The script has been loaded and createDataPoints() (410-427) has run to
\* its end: the five datapoints exist, with their defaults or with what the
\* script left when it last ran; counted is the sum and the number of the
\* measurements of the day so far.
DataPointsCreated(counted) ==
    /\ AVG_TEMP_DP = StateOf(0, TRUE)
    /\ SUM_CACHE_DP = StateOf(counted.sum, TRUE)
    /\ COUNTER_DP = StateOf(counted.counter, TRUE)
    /\ numericUpdates = counted.counter
    /\ numericTotal = counted.sum
    /\ HEATING_PERIOD_DP = StateOf(counted.counter > 0, TRUE)
    /\ LAST_RESET_DP = StateOf(Never, TRUE)
    /\ dayPc = "idle"
    /\ dayLoc = InitialDayLocals
    /\ sensorLoc = [h \in Updates |-> InitialSensorLocals]
    /\ RoomNotLoaded
    /\ LearningAtRest
    /\ reglerleistung = StateOf(NeutralFactor, TRUE)

\* The sensor handler alone, between two end-of-day runs: a day that
\* begins, or one with three measurements counted.
CountedSoFar == {[sum |-> 0, counter |-> 0], [sum |-> 355, counter |-> 3]}
AccumulatorInit ==
    /\ \E counted \in CountedSoFar : DataPointsCreated(counted)
    /\ arrived = 0
    /\ sensorPc = [h \in Updates |-> "idle"]

AccumulatorNext ==
    \/ SensorUpdate
    \/ \E h \in Updates : Read452(h)
    \/ \E h \in Updates : Read453(h)
    \/ \E h \in Updates : Write459(h)
    \/ \E h \in Updates : Write460(h)

AccumulatorSpec == AccumulatorInit /\ [][AccumulatorNext]_vars

\* ------------------------------------------------------------- PeriodSpec
\* The whole script near the end of a day: every sensor update of the day
\* but the last has been handled, the end-of-day schedule fires day after
\* day, and the last update arrives before, during or after a run of it.
CountedAtEndOfDay ==
    {[sum |-> 0, counter |-> 0], [sum |-> -5, counter |-> 1],
     [sum |-> 540, counter |-> 3], [sum |-> 545, counter |-> 3]}
PeriodInit ==
    /\ \E counted \in CountedAtEndOfDay : DataPointsCreated(counted)
    /\ arrived = MaxUpdates - 1
    /\ sensorPc = [h \in Updates |-> IF h < MaxUpdates THEN "R461" ELSE "idle"]

PeriodNext ==
    \/ SensorUpdate
    \/ \E h \in Updates : Read452(h)
    \/ \E h \in Updates : Read453(h)
    \/ \E h \in Updates : Write459(h)
    \/ \E h \in Updates : Write460(h)
    \/ EndOfDayFires
    \/ Read472
    \/ Read473
    \/ Write477
    \/ Write481
    \/ Write482
    \/ Write489
    \/ Write499

PeriodSpec == PeriodInit /\ [][PeriodNext]_vars

\* ================================================================ properties
\* An invocation that has computed its result and has not returned yet.
Computed(r) == pc[r] \in {"L493", "L494"}
\* The value of a mixed number times its denominator.
Numerator(x) == x.int * x.den + x.num
\* The conditions of the first three branches of the learning logic (470,
\* 474, 478), on a mean in tenths of a degree and a stability, both rationals.
RegimeA(mean, stability) == mean.num < 70 * mean.den /\ 10 * stability.num < 4 * stability.den
RegimeB(mean, stability) == mean.num > 160 * mean.den /\ 10 * stability.num > 6 * stability.den
RegimeC(mean, stability) ==
    /\ mean.num >= 80 * mean.den
    /\ mean.num <= 120 * mean.den
    /\ 10 * stability.num > 7 * stability.den
Constant(w) == \A i \in 1..Len(w) : w[i] = w[1]
SixOf(v) == <<v, v, v, v, v, v>>

\* C1: every factor a learning cycle has written to the state store (ack
\* set) lies in [0.3, 1.7], whatever the window and the factor found there,
\* an override outside the limits included.
C1_FactorWithinLimits ==
    (reglerleistung.exists /\ reglerleistung.ack)
        => (LowerLimit <= reglerleistung.val /\ reglerleistung.val <= UpperLimit)
\* A cycle has returned after writing, and the factor it left is the upper
\* limit: the value it computed was cut off.
C1_Witness ==
    /\ \E r \in Runs : pc[r] = "R501"
    /\ reglerleistung = StateOf(UpperLimit, TRUE)

\* C2: a cycle applies exactly one regime, the first of A, B, C, Default
\* whose condition holds; in particular A whenever A and C both hold.
C2_FirstMatchWins ==
    \A r \in Runs : Computed(r) =>
        LET mean == loc[r].mean.val
            stability == loc[r].stability.val
            prev == loc[r].currentReglerleistung.val
            case == loc[r].adjustmentCase.val
            new == loc[r].newReglerleistung.val
            a == RegimeA(mean, stability)
            b == RegimeB(mean, stability)
            c == RegimeC(mean, stability)
        IN  /\ a => /\ case = "Case 1: System sluggish/unstable"
                    /\ new = Clamp(Case1Adjust(prev, mean))
            /\ (~a /\ b) => /\ case = "Case 2: System overreacting"
                            /\ new = Clamp(Case2Adjust(prev))
            /\ (~a /\ ~b /\ c) => /\ case = "Case 3: System in optimal range"
                                  /\ new = Clamp(Case3Adjust(prev))
            /\ (~a /\ ~b /\ ~c) => /\ case = "Default-Convergence"
                                   /\ new = Clamp(DefaultAdjust(prev, stability))
            /\ (a /\ c) => case = "Case 1: System sluggish/unstable"
\* A cycle in which regime A applied.
C2_Witness ==
    \E r \in Runs :
        /\ Computed(r)
        /\ RegimeA(loc[r].mean.val, loc[r].stability.val)
        /\ loc[r].adjustmentCase.val = "Case 1: System sluggish/unstable"

FailedReplies == {m \in Replies : m.kind # "data" \/ m.result = <<>>}
C4_QueryFailureAborts ==
    /\ [][\A r \in Runs : \A m \in FailedReplies :
              Resume425With(r, m) =>
                  /\ pc'[r] = "R444"
                  /\ loc'[r] = InitialLocals
                  /\ UNCHANGED outputs]_vars
    /\ [](\A r \in Runs : pc[r] # "rejected")
    /\ []((pc["cron"] = "R444" /\ cycles < MaxCycles) => ENABLED CronFires)
\* One invocation has ended in the catch block and the other one has
\* written both datapoints.
C4_Witness ==
    /\ pc["timer"] = "R444"
    /\ pc["cron"] = "R501"
    /\ reglerleistung.exists /\ reglerleistung.ack
    /\ systemStabilitaet.exists /\ systemStabilitaet.val # InitialStability

C6_CyclesSerialized ==
    ~ /\ Computed("timer")
      /\ Computed("cron")
      /\ loc["timer"].currentReglerleistung = loc["cron"].currentReglerleistung

C9_StableLowMean ==
    \A r \in Runs : Computed(r) =>
        LET mean == loc[r].mean.val
            stability == loc[r].stability.val
        IN  (mean.num < 70 * mean.den /\ ~(10 * stability.num < 4 * stability.den))
            => /\ loc[r].adjustmentCase.val = "Default-Convergence"
               /\ loc[r].currentReglerleistung.val = NeutralFactor
                      => /\ loc[r].newReglerleistung.val.int = NeutralFactor
                         /\ loc[r].newReglerleistung.val.num = 0
\* Six samples of 5.0 and a previous factor of 1.0.
C9_Witness ==
    \E r \in Runs :
        /\ pc[r] = "L494"
        /\ loc[r].stabilityWindow = Value(SixOf(50))
        /\ loc[r].currentReglerleistung = Value(NeutralFactor)
        /\ loc[r].adjustmentCase = Value("Default-Convergence")
        /\ ToFixed4(loc[r].newReglerleistung.val) = NeutralFactor

\* C10, without the limits: with a mean above 16 and a stability above 0.6
\* case 2 applies and the new factor is 0.95 times the previous factor.
C10_Original ==
    \A r \in Runs : Computed(r) =>
        LET mean == loc[r].mean.val
            stability == loc[r].stability.val
            prev == loc[r].currentReglerleistung.val
            new == loc[r].newReglerleistung.val
        IN  RegimeB(mean, stability)
            => /\ loc[r].adjustmentCase.val = "Case 2: System overreacting"
               /\ 100 * Numerator(new) = 95 * prev * new.den
\* C10: with a mean above 16 and a stability above 0.6 case 2 applies and
\* the new factor is 0.95 times the previous factor, limited to [0.3, 1.7],
\* whatever the mean above 16.
C10_DampingThenLimits ==
    \A r \in Runs : Computed(r) =>
        LET mean == loc[r].mean.val
            stability == loc[r].stability.val
            prev == loc[r].currentReglerleistung.val
            new == loc[r].newReglerleistung.val
        IN  RegimeB(mean, stability)
            => /\ loc[r].adjustmentCase.val = "Case 2: System overreacting"
               /\ IF 95 * prev < 100 * LowerLimit
                  THEN Numerator(new) = LowerLimit * new.den
                  ELSE IF 95 * prev > 100 * UpperLimit
                  THEN Numerator(new) = UpperLimit * new.den
                  ELSE 100 * Numerator(new) = 95 * prev * new.den
\* Six samples of 18.0 and a previous factor of 1.2: the new factor is 1.14.
C10_Witness ==
    \E r \in Runs :
        /\ pc[r] = "L494"
        /\ loc[r].stabilityWindow = Value(SixOf(180))
        /\ loc[r].currentReglerleistung = Value(12000)
        /\ loc[r].adjustmentCase = Value("Case 2: System overreacting")
        /\ ToFixed4(loc[r].newReglerleistung.val) = 11400

\* C11: an invocation holds an analysed window (and goes on to the writes)
\* only with the heating period active, a spread that is a number of at
\* least 2.0 and a window of at least 3 samples, none of them null or
\* negative; a query answered with fewer than 3 valid samples ends the
\* invocation, and an invocation that returns at a guard (408, 416, 444,
\* 450) leaves both output datapoints as they were.
GuardReturns == {"R408", "R416", "R444", "R450"}
C11_EstimatorGuarded ==
    /\ [](\A r \in Runs : loc[r].stabilityWindow.set =>
             LET w == loc[r].stabilityWindow.val
             IN  /\ loc[r].heizperiodeAktiv = Value(TRUE)
                 /\ loc[r].aktuelleSpreizung.val # NotANumber
                 /\ loc[r].aktuelleSpreizung.val >= minSpreizungForLearning
                 /\ Len(w) >= MinHistory
                 /\ \A i \in 1..Len(w) : w[i] # Null /\ w[i] >= 0)
    /\ [][\A r \in Runs : \A m \in Replies :
              (/\ Resume425With(r, m)
               /\ Cardinality({i \in 1..Len(m.result) :
                                  m.result[i] # Null /\ m.result[i] >= 0}) < MinHistory)
              => pc'[r] \in GuardReturns]_vars
    /\ [][\A r \in Runs :
              (pc'[r] # pc[r] /\ pc'[r] \in GuardReturns) => UNCHANGED outputs]_vars
\* A query answered with exactly three valid samples, one of them 0, has
\* been analysed.
C11_Witness ==
    \E r \in Runs :
        /\ pc[r] = "L464"
        /\ loc[r].stabilityWindow = Value(<<0, 180, 0>>)

\* C12: the step that resumes main() after the read of the factor (464)
\* never ends the cycle early: it goes on to the writes (or, in simulation
\* mode, to the end of main()), with 1.0 as previous factor when the
\* datapoint is absent and the stored value when it is present.
C12_AbsentFactorIsNeutral ==
    [][\A r \in Runs :
          (pc[r] = "L464" /\ pc'[r] # "L464") =>
              IF simulationAktiv
              THEN pc'[r] = "R501" /\ UNCHANGED outputs
              ELSE /\ pc'[r] = "L493"
                   /\ loc'[r].currentReglerleistung =
                          Value(IF reglerleistung.exists
                                THEN reglerleistung.val ELSE NeutralFactor)]_vars
\* The factor datapoint is absent and an invocation has taken 1.0 as
\* previous factor.
C12_Witness ==
    \E r \in Runs :
        /\ pc[r] = "L493"
        /\ reglerleistung = Absent
        /\ loc[r].currentReglerleistung = Value(NeutralFactor)

\* C13: every step that changes the factor datapoint is the write of 494
\* of an invocation that is not simulated and then returns, or a write
\* without ack by an operator, or the creation of the absent datapoint with
\* 1.0 by createStates; createStates leaves an existing factor as it is,
\* and so does an invocation that returns at a guard or runs simulated.
C13_FactorChangedOnlyByWrite ==
    /\ [][reglerleistung' # reglerleistung =>
              \/ /\ ~simulationAktiv
                 /\ reglerleistung'.ack
                 /\ \E r \in Runs : pc[r] = "L494" /\ pc'[r] = "R501"
              \/ reglerleistung.exists /\ ~reglerleistung'.ack
              \/ /\ ~reglerleistung.exists
                 /\ boot = "L375"
                 /\ reglerleistung' = StateOf(NeutralFactor, TRUE)]_vars
    /\ [][(boot' # boot /\ reglerleistung.exists) => UNCHANGED reglerleistung]_vars
    /\ [][(\E r \in Runs : pc'[r] # pc[r] /\ pc'[r] \in GuardReturns)
              => UNCHANGED reglerleistung]_vars
\* The script was restarted on a stored factor of 1.2 and a simulated
\* invocation has run to its end: the factor is still 1.2.
C13_Witness ==
    /\ simulationAktiv
    /\ autoCreateOutputStates
    /\ boot = "done"
    /\ pc["timer"] = "R501"
    /\ reglerleistung = StateOf(12000, TRUE)

\* x lies between the previous factor p and 1.0, both included (x a mixed
\* number, p in units of 1e-4).
BetweenPrevAndNeutral(x, p) ==
    IF p <= NeutralFactor
    THEN /\ x.int >= p
         /\ x.int < NeutralFactor \/ (x.int = NeutralFactor /\ x.num = 0)
    ELSE /\ x.int >= NeutralFactor
         /\ x.int < p \/ (x.int = p /\ x.num = 0)
\* C15: in a cycle that applied case 3 or the default case on a previous
\* factor within [0.3, 1.7], the new factor, before and after the limits
\* and before toFixed, lies between the previous factor and 1.0.
C15_ConvergesTowardNeutral ==
    \A r \in Runs : Computed(r) =>
        LET prev == loc[r].currentReglerleistung.val
            learned == Learn(prev, loc[r].mean.val, loc[r].stability.val)
        IN  (/\ LowerLimit <= prev
             /\ prev <= UpperLimit
             /\ loc[r].adjustmentCase.val \in
                    {"Case 3: System in optimal range", "Default-Convergence"})
            => /\ BetweenPrevAndNeutral(learned.newReglerleistung, prev)
               /\ BetweenPrevAndNeutral(loc[r].newReglerleistung.val, prev)
\* Case 3 has taken a previous factor of 1.2 to 1.198.
C15_Witness ==
    \E r \in Runs :
        /\ pc[r] = "L494"
        /\ loc[r].currentReglerleistung = Value(12000)
        /\ loc[r].adjustmentCase = Value("Case 3: System in optimal range")
        /\ ToFixed4(loc[r].newReglerleistung.val) = 11980

\* An invocation of the room's main() is entered in this step.
RoomMainStarts == \E r \in RoomRuns : roomPc[r] # "L124" /\ roomPc'[r] = "L124"

\* C14: whatever triggers arrive, main() of the room script is entered only
\* when at least COOLDOWN_MS have passed since it was last entered, and
\* while less than COOLDOWN_MS have passed since the last accepted trigger
\* no step enters main() or sets lastRunTimestamp: a trigger that arrives
\* then returns at 289.
C14_CooldownBetweenStarts ==
    /\ [][RoomMainStarts => sinceLastStart >= COOLDOWN_MS]_vars
    /\ [][(0 - lastRunTimestamp < COOLDOWN_MS) =>
              /\ ~RoomMainStarts
              /\ lastRunTimestamp' <= lastRunTimestamp
              /\ rateLimited' \in {rateLimited, "R289"}]_vars
\* A second invocation has been started while the first one is still
\* running, and a trigger has since been dropped.
C14_Witness ==
    /\ roomPc[1] = "L249"
    /\ roomPc[2] = "L124"
    /\ rateLimited = "R289"
    /\ lastRunTimestamp = -1999

\* An invocation of the room's main() that has computed neueSollTemp.
RoomComputed(r) == roomLoc[r].neueSollTemp.set
\* The collected heating period is on, and some contact of the collected
\* list reports open.
HeatingOn(r) == roomLoc[r].heizPeriode.val = StateOf(TRUE, TRUE)
SomeWindowOpen(r) ==
    \E i \in 1..Len(roomLoc[r].fensterKontakte.val) :
        \/ roomLoc[r].fensterKontakte.val[i] = StateOf("true", TRUE)
        \/ roomLoc[r].fensterKontakte.val[i] = StateOf("1", TRUE)

\* C16: with the heating period on and no window contact open, the
\* setpoint computed lies in [16.0, 24.0] and is a multiple of 0.5,
\* whatever the sensors and the learned factor contribute.
C16_SetpointWithinLimits ==
    \A r \in RoomRuns :
        (RoomComputed(r) /\ HeatingOn(r) /\ ~SomeWindowOpen(r))
        => /\ roomLoc[r].neueSollTemp.val >= 160 * Tenth
           /\ roomLoc[r].neueSollTemp.val <= 240 * Tenth
           /\ roomLoc[r].neueSollTemp.val % HalfDegree = 0
\* The adjustments have taken the setpoint above the upper limit, and 24.0
\* is what is left.
C16_Witness ==
    \E r \in RoomRuns :
        /\ RoomComputed(r) /\ HeatingOn(r) /\ ~SomeWindowOpen(r)
        /\ reglerleistung = StateOf(UpperLimit, TRUE)
        /\ roomLoc[r].basisSollTemp = Value(215)
        /\ roomLoc[r].neueSollTemp = Value(240 * Tenth)

\* C17: with the heating period off the setpoint computed is exactly 4.5,
\* and with the heating period on and a window contact open (true or 1) it
\* is exactly 12.0: no adjustment and no limit applies.
C17_SpecialCasesOverride ==
    \A r \in RoomRuns : RoomComputed(r) =>
        /\ roomLoc[r].heizPeriode.val \in {Absent, StateOf(FALSE, TRUE)}
               => roomLoc[r].neueSollTemp.val = 45 * Tenth
        /\ (HeatingOn(r) /\ SomeWindowOpen(r))
               => roomLoc[r].neueSollTemp.val = 120 * Tenth
\* The heating period is on, the window contact reports 1, somebody is at
\* home: the setpoint is 12.0.
C17_Witness ==
    \E r \in RoomRuns :
        /\ RoomComputed(r) /\ HeatingOn(r)
        /\ roomLoc[r].fensterKontakte = Value(<<StateOf("1", TRUE)>>)
        /\ roomLoc[r].anwesenheit = Value(StateOf(TRUE, TRUE))
        /\ roomLoc[r].neueSollTemp = Value(120 * Tenth)

\* The steps of the loop body 249-259 of invocation r, given the value cur
\* (tenths of a degree) taken as the thermostat's current setpoint: the
\* setpoint is written if and only if neueSollTemp differs from cur by more
\* than 0.5, and CONTROL_MODE is set to 1 right after it and only then.
HysteresisSteps(r, cur) ==
    /\ (roomPc[r] = "L249" /\ roomPc'[r] # "L249") =>
           LET neu == roomLoc[r].neueSollTemp.val
               differs == neu - cur * Tenth > 5 * Tenth \/ cur * Tenth - neu > 5 * Tenth
           IN  /\ roomPc'[r] = (IF differs THEN "L255" ELSE "R277")
               /\ UNCHANGED <<setPointTemperature, controlMode>>
    /\ (roomPc[r] = "L255" /\ roomPc'[r] # "L255") =>
           /\ roomPc'[r] = "L258"
           /\ setPointTemperature'.val * Tenth = roomLoc[r].neueSollTemp.val
           /\ UNCHANGED controlMode
    /\ (roomPc[r] = "L258" /\ roomPc'[r] # "L258") =>
           /\ roomPc'[r] = "R277"
           /\ controlMode'.val = 1
           /\ UNCHANGED setPointTemperature
ThermostatWrittenOnlyInLoop ==
    /\ setPointTemperature' # setPointTemperature => \E r \in RoomRuns : roomPc[r] = "L255"
    /\ controlMode' # controlMode => \E r \in RoomRuns : roomPc[r] = "L258"

\* C18, with 4.5 assumed only when the datapoint is absent: the setpoint is
\* written if and only if it differs by more than 0.5 from the value set at
\* the thermostat, CONTROL_MODE is set if and only if the setpoint was
\* written, and otherwise both datapoints are left as they are.
C18_Original ==
    [][/\ \A r \in RoomRuns :
              HysteresisSteps(r, IF setPointTemperature.exists
                                 THEN setPointTemperature.val ELSE 45)
       /\ ThermostatWrittenOnlyInLoop]_vars
\* C18: the same, with 4.5 assumed when the datapoint is absent or its
\* value is null or 0.
C18_Hysteresis ==
    [][/\ \A r \in RoomRuns :
              HysteresisSteps(r, IF setPointTemperature.exists
                                    /\ setPointTemperature.val # 0
                                 THEN setPointTemperature.val ELSE 45)
       /\ ThermostatWrittenOnlyInLoop]_vars
\* The thermostat stood at 0, the heating period is on, and the run has
\* written its setpoint and is about to set the mode.
C18_Witness ==
    \E r \in RoomRuns :
        /\ roomPc[r] = "L258"
        /\ roomLoc[r].aktuellEingestellteTemp = Value(45)
        /\ roomLoc[r].neueSollTemp = Value(160 * Tenth)
        /\ setPointTemperature = StateOf(160, FALSE)

\* C19: with the heating period on, somebody at home, no window open and
\* the door sensor in use, the base temperature is the presence temperature
\* when the door contact reports closed (false or 0) and the absence
\* temperature when it reports open (true or 1).
C19_DoorLogic ==
    \A r \in RoomRuns :
        (/\ RoomComputed(r)
         /\ HeatingOn(r)
         /\ roomLoc[r].anwesenheit.val = StateOf(TRUE, TRUE)
         /\ ~SomeWindowOpen(r)
         /\ tuerSensorNutzen
         /\ roomLoc[r].tuerSensor.val.exists)
        => /\ roomLoc[r].tuerSensor.val.val \in {"false", "0"}
                  => roomLoc[r].basisSollTemp.val = roomLoc[r].sollTempAnwesend.val
           /\ roomLoc[r].tuerSensor.val.val \in {"true", "1"}
                  => roomLoc[r].basisSollTemp.val = roomLoc[r].sollTempAbwesend.val

\* C20: once an input has changed, whether or not the trigger for the
\* change was dropped by the cooldown or never came, an invocation of
\* main() entered after the change eventually reads the inputs, as long as
\* time passes, the periodic trigger keeps firing and the awaits resume.
C20_PeriodicRecomputes ==
    (inputChange \in {"changed", "dropped"}) ~> (inputChange \in {"read", "recovered"})
\* A trigger that followed the change was dropped by the cooldown, and a
\* later invocation has read the inputs.
C20_Witness == inputChange = "recovered"

\* C24: in simulation mode no step of an invocation of main() changes the
\* stability or the factor datapoint and no invocation arrives at the
\* writes of 493 and 494, whatever the query returns; in normal operation
\* an invocation that has passed every guard goes from the read of 464 to
\* the write of the stability (493), then to the write of the factor (494),
\* each with the value it computed and with ack, and only then returns.
C24_SimulationWritesNothing ==
    /\ [](simulationAktiv => \A r \in Runs : pc[r] \notin {"L493", "L494"})
    /\ [][(simulationAktiv /\ \E r \in Runs : pc'[r] # pc[r])
              => UNCHANGED outputs]_vars
    /\ [][\A r \in Runs :
              (~simulationAktiv /\ pc'[r] # pc[r]) =>
                  /\ pc[r] = "L464" => pc'[r] = "L493"
                  /\ pc[r] = "L493" =>
                        /\ pc'[r] = "L494"
                        /\ systemStabilitaet' =
                               StateOf(RatToFixed4(loc[r].stability.val), TRUE)
                  /\ pc[r] = "L494" =>
                        /\ pc'[r] = "R501"
                        /\ reglerleistung' =
                               StateOf(ToFixed4(loc[r].newReglerleistung.val), TRUE)
                  /\ pc'[r] = "R501" => pc[r] = "L494"]_vars
\* With automatic creation off and both datapoints absent, a simulated
\* invocation has passed every guard, analysed the data and run to its
\* end: both datapoints are still absent.
C24_Witness ==
    /\ simulationAktiv
    /\ ~autoCreateOutputStates
    /\ pc["cron"] = "R501"
    /\ reglerleistung = Absent
    /\ systemStabilitaet = Absent

\* ------------------------------------------------ heating period script
\* The handlers of the sensor updates delivered so far have all finished.
HandlersFinished == \A h \in Updates : sensorPc[h] \in {"idle", "R448", "R461"}

\* C21: once the handlers of all sensor updates have finished, the counter
\* datapoint equals the number of the updates that carried a number since
\* the last reset and the sum datapoint equals the total of their values,
\* however the handlers interleaved at their awaits.
C21_AccumulatorCounts ==
    HandlersFinished =>
        /\ COUNTER_DP.val = numericUpdates
        /\ SUM_CACHE_DP.val = numericTotal

\* C22: the step that ends an end-of-day run writes true to the
\* heating-period datapoint when the daily average the run computed is at
\* most 18.0 and the month is one of October to May, and false otherwise;
\* nothing else changes that datapoint; and the daily average of a run
\* that read a counter of 0 is 0, that of any other run sum / counter with
\* the counter above 0.
C22_HeatingPeriodDecision ==
    /\ [][(dayPc = "L499" /\ dayPc' # dayPc) =>
              /\ dayPc' = "R509"
              /\ HEATING_PERIOD_DP' =
                    StateOf(/\ dayLoc.dailyAverage.val.num
                                  <= 180 * dayLoc.dailyAverage.val.den
                            /\ dayLoc.now.val.getMonth + 1
                                  \in {10, 11, 12, 1, 2, 3, 4, 5},
                            TRUE)]_vars
    /\ [][HEATING_PERIOD_DP' # HEATING_PERIOD_DP => dayPc = "L499"]_vars
    /\ [](dayLoc.dailyAverage.set => dayLoc.dailyAverage.val.den > 0)
    /\ [][(dayPc = "L473" /\ dayPc' # dayPc) =>
              /\ dayPc' = "L477"
              /\ dayLoc'.dailyAverage =
                    Value(IF COUNTER_DP.val = 0 THEN [num |-> 0, den |-> 1]
                          ELSE [num |-> dayLoc.sum.val, den |-> COUNTER_DP.val])]_vars
\* A run that found no measurement counted has ended in a month of the
\* heating timeframe: the stored average is 0 and the heating period is on.
C22_Witness ==
    /\ dayPc = "R509"
    /\ LAST_RESET_DP = StateOf(<<(<<0, 9>>), (<<0, 1>>), 2026>>, TRUE)
    /\ AVG_TEMP_DP = StateOf(0, TRUE)
    /\ HEATING_PERIOD_DP = StateOf(TRUE, TRUE)
    /\ arrived = MaxUpdates - 1
    /\ numericUpdates = 0

\* C23: the handler of an update whose value is not a number returns at
\* once (448): the step changes no datapoint, keeps no local value and
\* leaves the handlers of the other updates where they are; the handler
\* of an update that carries a number goes on to read the sum.
C23_InvalidValueSkipped ==
    /\ [][\A state \in NonNumbers :
              SensorUpdateWith(state) =>
                  /\ sensorPc' = [sensorPc EXCEPT ![arrived + 1] = "R448"]
                  /\ UNCHANGED <<AVG_TEMP_DP, SUM_CACHE_DP, COUNTER_DP,
                                 HEATING_PERIOD_DP, LAST_RESET_DP,
                                 sensorLoc, dayPc, dayLoc>>]_vars
    /\ [][\A v \in Temperatures :
              SensorUpdateWith(NumberValue(v)) =>
                  /\ sensorPc'[arrived + 1] = "L452"
                  /\ sensorLoc'[arrived + 1].currentTemp = Value(v)]_vars
    /\ [](\A h \in Updates :
              sensorPc[h] = "R448" => sensorLoc[h] = InitialSensorLocals)
    /\ [][\A h \in Updates : sensorPc[h] = "R448" => sensorPc'[h] = "R448"]_vars
\* On a day that begins, an update without a number was skipped and the
\* next update, 19.0, has been handled to its end: one measurement is
\* counted and the sum is 19.0.
C23_Witness ==
    /\ sensorPc[1] = "R448"
    /\ sensorPc[2] = "R461"
    /\ COUNTER_DP = StateOf(1, TRUE)
    /\ SUM_CACHE_DP = StateOf(190, TRUE)

====
